---------------------------- MODULE Spec2Model ----------------------------
(***************************************************************************)
(* Model of the entity pipeline of etl-service:                            *)
(*   ner_wayang.py    preprocess_text, clean_entity_name,                  *)
(*                    expand_to_full_word, run_ner_process                 *)
(*   evaluate_ner.py  calculate_metrics                                    *)
(*                                                                         *)
(* A Python str is a sequence of one-character strings.  A float score is  *)
(* an integer number of hundredths (0.60 is 60).  A float metric is an     *)
(* exact fraction [n, d] in lowest terms.                                  *)
(***************************************************************************)
EXTENDS Integers, Sequences, FiniteSets, TLC

VARIABLES
    \* run_ner_process
    pc, df, index, text, story_title, emitted, unique_entities,
    final_output, warned, sightings,
    \* whether expand_to_full_word was called for a span below the threshold
    low_repaired,
    \* the entity table as it was when the try block of the row was entered
    table_before_row,
    \* calculate_metrics
    epc, GOLD_STANDARD, json_results, model_predictions, gold_truth, pos,
    tp, fp, fn, strict_tp, strict_fp_label_error, mismatches, report,
    \* expand_to_full_word
    xpc, xtext, xstart, xend, current_end, xresult,
    \* clean_entity_name
    cpc, raw_word, word

nerVars == <<pc, df, index, text, story_title, emitted, unique_entities,
             final_output, warned, sightings, low_repaired, table_before_row>>
evalVars == <<epc, GOLD_STANDARD, json_results, model_predictions, gold_truth,
              pos, tp, fp, fn, strict_tp, strict_fp_label_error, mismatches,
              report>>
expandVars == <<xpc, xtext, xstart, xend, current_end, xresult>>
cleanVars == <<cpc, raw_word, word>>
vars == <<nerVars, low_repaired, evalVars,
                   expandVars, cleanVars>>

-----------------------------------------------------------------------------
(* Bounds of the model. *)

\* entities the labeling model returns in one run
MaxEntities == 3
\* entries of the gold list, and records of the results file
MaxGold == 2
MaxPreds == 2
\* length of the enumerated texts given to expand_to_full_word
MaxTextLen == 3
\* length of the enumerated words given to clean_entity_name
MaxWordLen == 5

-----------------------------------------------------------------------------
(* Characters and Python's str methods. *)

Min(a, b) == IF a <= b THEN a ELSE b
Max(a, b) == IF a >= b THEN a ELSE b

\* the characters of the model, in code point order
CharOrder ==
    <<"\t", "\n", " ", "!", "\"", "#", "'", "(", ")", ",", ".",
      "0", "1", "2", "3", "4", "5", "6", "7", "8", "9", ":", ";", "?",
      "A", "B", "C", "D", "E", "F", "G", "H", "I", "J", "K", "L", "M",
      "N", "O", "P", "Q", "R", "S", "T", "U", "V", "W", "X", "Y", "Z",
      "a", "b", "c", "d", "e", "f", "g", "h", "i", "j", "k", "l", "m",
      "n", "o", "p", "q", "r", "s", "t", "u", "v", "w", "x", "y", "z">>

Ord(c) == CHOOSE i \in 1..Len(CharOrder) : CharOrder[i] = c

UpperCase == {CharOrder[i] : i \in Ord("A")..Ord("Z")}
LowerCase == {CharOrder[i] : i \in Ord("a")..Ord("z")}
Digits == {CharOrder[i] : i \in Ord("0")..Ord("9")}

IsUpper(c) == c \in UpperCase
IsLower(c) == c \in LowerCase
IsDigit(c) == c \in Digits
\* [a-zA-Z]
IsAlpha(c) == IsUpper(c) \/ IsLower(c)
\* str.isalnum() of one character
IsAlnum(c) == IsAlpha(c) \/ IsDigit(c)
\* \s, and the characters str.strip() removes
IsSpace(c) == c \in {" ", "\t", "\n"}

LowerChar(c) == IF IsUpper(c) THEN CharOrder[Ord(c) + (Ord("a") - Ord("A"))] ELSE c
\* str.lower()
Lower(s) == [i \in 1..Len(s) |-> LowerChar(s[i])]

\* s[a:b] for 0 <= a, 0 <= b
Slice(s, a, b) == SubSeq(s, Min(a, Len(s)) + 1, Min(b, Len(s)))

RECURSIVE LStrip(_, _)
LStrip(s, cs) == IF s # <<>> /\ s[1] \in cs THEN LStrip(Tail(s), cs) ELSE s
RECURSIVE RStrip(_, _)
RStrip(s, cs) ==
    IF s # <<>> /\ s[Len(s)] \in cs THEN RStrip(SubSeq(s, 1, Len(s) - 1), cs) ELSE s
\* str.strip(chars)
StripChars(s, cs) == RStrip(LStrip(s, cs), cs)
\* str.strip()
Strip(s) == StripChars(s, {" ", "\t", "\n"})

\* s < t, as Python compares two str
RECURSIVE StrLess(_, _)
StrLess(s, t) ==
    IF t = <<>> THEN FALSE
    ELSE IF s = <<>> THEN TRUE
    ELSE IF s[1] # t[1] THEN Ord(s[1]) < Ord(t[1])
    ELSE StrLess(Tail(s), Tail(t))

\* sorted(list(S)) of a set of str
RECURSIVE SortedStrs(_)
SortedStrs(S) ==
    IF S = {} THEN <<>>
    ELSE LET m == CHOOSE x \in S : \A y \in S \ {x} : StrLess(x, y)
         IN <<m>> \o SortedStrs(S \ {m})

-----------------------------------------------------------------------------
(* ner_wayang.py: the pure functions. *)

\* 0.60
CONFIDENCE_THRESHOLD == 60

BLOCKLIST ==
    { <<"S","a","n","g">>, <<"P","a","r","a">>, <<"Y","a","n","g">>,
      <<"D","a","n">>, <<"D","i">>, <<"K","e">>, <<"D","a","r","i">>,
      <<"S","a","a","t">>, <<"K","e","t","i","k","a">>, <<"M","a","k","a">>,
      <<"L","a","l","u">>, <<"A","k","a","n">>, <<"T","e","l","a","h">>,
      <<"S","u","d","a","h">>, <<"I","a">>, <<"D","i","a">>,
      <<"M","e","r","e","k","a">>, <<"H","a","l">> }

\* the number of \s characters of s from 0-based position i on
RECURSIVE SpaceRun(_, _)
SpaceRun(s, i) == IF i < Len(s) /\ IsSpace(s[i + 1]) THEN 1 + SpaceRun(s, i + 1) ELSE 0

\* re.sub(r'\s+', ' ', s)
RECURSIVE CollapseSpace(_)
CollapseSpace(s) ==
    IF s = <<>> THEN <<>>
    ELSE IF IsSpace(s[1])
         THEN <<" ">> \o CollapseSpace(SubSeq(s, SpaceRun(s, 0) + 1, Len(s)))
         ELSE <<s[1]>> \o CollapseSpace(Tail(s))

\* re.sub(r'([.,!?;:])(?=[a-zA-Z])', r'\1 ', s)
RECURSIVE SpaceAfterPunct(_)
SpaceAfterPunct(s) ==
    IF s = <<>> THEN <<>>
    ELSE IF s[1] \in {".", ",", "!", "?", ";", ":"} /\ Len(s) >= 2 /\ IsAlpha(s[2])
         THEN <<s[1], " ">> \o SpaceAfterPunct(Tail(s))
         ELSE <<s[1]>> \o SpaceAfterPunct(Tail(s))

\* re.sub(r'\s*P\s*', rep, s) for a bracket P
RECURSIVE SubBracket(_, _, _)
SubBracket(s, P, rep) ==
    IF s = <<>> THEN <<>>
    ELSE LET j == SpaceRun(s, 0)
         IN IF j < Len(s) /\ s[j + 1] = P
            THEN rep \o SubBracket(SubSeq(s, j + 2 + SpaceRun(s, j + 1), Len(s)), P, rep)
            ELSE <<s[1]>> \o SubBracket(Tail(s), P, rep)

preprocess_text(t) ==
    Strip(SubBracket(SubBracket(SpaceAfterPunct(CollapseSpace(t)),
                                "(", <<" ", "(">>), ")", <<")", " ">>))

\* word.replace("##", "")
RECURSIVE RemoveMarker(_)
RemoveMarker(s) ==
    IF s = <<>> THEN <<>>
    ELSE IF Len(s) >= 2 /\ s[1] = "#" /\ s[2] = "#" THEN RemoveMarker(SubSeq(s, 3, Len(s)))
    ELSE <<s[1]>> \o RemoveMarker(Tail(s))

\* re.sub(' +', ' ', word)
RECURSIVE CollapseBlanks(_)
CollapseBlanks(s) ==
    IF s = <<>> THEN <<>>
    ELSE IF s[1] = " " /\ Len(s) >= 2 /\ s[2] = " " THEN CollapseBlanks(Tail(s))
    ELSE <<s[1]>> \o CollapseBlanks(Tail(s))

\* the characters line 34 strips from both ends
Punctuation == {" ", ".", ",", ":", ";", "!", "?", "\"", "'", "(", ")"}

clean_entity_name(w) == CollapseBlanks(StripChars(RemoveMarker(w), Punctuation))

\* the condition of the while loop of expand_to_full_word
LoopCondNoAlnum(t, ce) == ce < Len(t)
LoopCond(t, ce) == ce < Len(t) /\ IsAlnum(t[ce + 1])

\* line 45: the condition of the early return of expand_to_full_word
AtTextEnd(t, e) == e >= Len(t)

LoopStartAtStart(start, end) == start
\* line 49: where the loop starts
LoopStart(start, end) == end

\* lines 50-51: the while loop run to its end
RECURSIVE ScanWord(_, _)
ScanWord(t, ce) == IF LoopCond(t, ce) THEN ScanWord(t, ce + 1) ELSE ce

expand_to_full_word(t, start, end) ==
    IF AtTextEnd(t, end) THEN Slice(t, start, end)
    ELSE Slice(t, start, ScanWord(t, LoopStart(start, end)))

-----------------------------------------------------------------------------
(* expand_to_full_word, one step of its loop at a time. *)

ExpandAlphabet == {"a", "B", "7", " ", "."}
ExampleText == <<"A", "r", "y", "a", " ", "B", "a", "s", "u", "s", "a", "r", "a", " ", "a", "d", "a", "l", "a", "h">>
ExpandTexts ==
    UNION {[1..n -> ExpandAlphabet] : n \in 0..MaxTextLen} \cup {ExampleText}

\* lines 45-49: the early return, or the start of the loop
ExpandCall ==
    /\ xpc = "call"
    /\ IF AtTextEnd(xtext, xend)
       THEN /\ xresult' = Slice(xtext, xstart, xend)
            /\ xpc' = "ret"
            /\ UNCHANGED current_end
       ELSE /\ current_end' = LoopStart(xstart, xend)
            /\ xpc' = "loop"
            /\ UNCHANGED xresult
    /\ UNCHANGED <<xtext, xstart, xend, nerVars, evalVars, cleanVars>>

\* lines 50-51: one iteration
ExpandLoop ==
    /\ xpc = "loop"
    /\ LoopCond(xtext, current_end)
    /\ current_end' = current_end + 1
    /\ UNCHANGED <<xpc, xtext, xstart, xend, xresult, nerVars, evalVars, cleanVars>>

\* line 53
ExpandReturn ==
    /\ xpc = "loop"
    /\ ~LoopCond(xtext, current_end)
    /\ xresult' = Slice(xtext, xstart, current_end)
    /\ xpc' = "ret"
    /\ UNCHANGED <<xtext, xstart, xend, current_end, nerVars, evalVars, cleanVars>>

NextExpand == ExpandCall \/ ExpandLoop \/ ExpandReturn

-----------------------------------------------------------------------------
(* clean_entity_name, one statement at a time. *)

CleanAlphabet == {"#", " ", ".", "a"}
\* a name whose second piece carries the continuation marker
ExampleWord == <<"B", "a", "m", " ", "#", "#", "b", "a", "n", "g">>
CleanWords ==
    UNION {[1..n -> CleanAlphabet] : n \in 0..MaxWordLen} \cup {ExampleWord}

\* line 33
CleanReplace ==
    /\ cpc = "replace"
    /\ word' = RemoveMarker(word)
    /\ cpc' = "strip"
    /\ UNCHANGED <<raw_word, nerVars, evalVars, expandVars>>

\* line 34
CleanStrip ==
    /\ cpc = "strip"
    /\ word' = StripChars(word, Punctuation)
    /\ cpc' = "sub"
    /\ UNCHANGED <<raw_word, nerVars, evalVars, expandVars>>

\* line 35
CleanReturn ==
    /\ cpc = "sub"
    /\ word' = CollapseBlanks(word)
    /\ cpc' = "ret"
    /\ UNCHANGED <<raw_word, nerVars, evalVars, expandVars>>

NextClean == CleanReplace \/ CleanStrip \/ CleanReturn

-----------------------------------------------------------------------------
(* The states in which a function has not been called. *)

NerIdle ==
    /\ pc = "idle" /\ df = <<>> /\ index = 0 /\ text = <<>> /\ story_title = <<>>
    /\ emitted = 0 /\ unique_entities = <<>> /\ final_output = <<>>
    /\ warned = <<>> /\ sightings = <<>> /\ low_repaired = FALSE
    /\ table_before_row = <<>>

EvalIdle ==
    /\ epc = "idle" /\ GOLD_STANDARD = <<>> /\ json_results = <<>>
    /\ model_predictions = <<>> /\ gold_truth = <<>> /\ pos = 0
    /\ tp = 0 /\ fp = 0 /\ fn = 0 /\ strict_tp = 0 /\ strict_fp_label_error = 0
    /\ mismatches = <<>> /\ report = <<>>

ExpandIdle ==
    /\ xpc = "idle" /\ xtext = <<>> /\ xstart = 0 /\ xend = 0
    /\ current_end = 0 /\ xresult = <<>>

CleanIdle == cpc = "idle" /\ raw_word = <<>> /\ word = <<>>

\* a call of expand_to_full_word with valid offsets
InitExpand ==
    /\ NerIdle /\ EvalIdle /\ CleanIdle
    /\ xpc = "call"
    /\ xtext \in ExpandTexts
    /\ xend \in 0..Len(xtext)
    /\ xstart \in 0..xend
    /\ current_end = 0
    /\ xresult = <<>>

SpecExpand == InitExpand /\ [][NextExpand]_vars
\* the interpreter runs the loop on
FairSpecExpand == SpecExpand /\ WF_vars(NextExpand)

\* a call clean_entity_name(raw_word)
InitClean ==
    /\ NerIdle /\ EvalIdle /\ ExpandIdle
    /\ cpc = "replace"
    /\ raw_word \in CleanWords
    /\ word = raw_word

SpecClean == InitClean /\ [][NextClean]_vars

-----------------------------------------------------------------------------
(* run_ner_process: the inputs. *)

Person == <<"P", "e", "r", "s", "o", "n">>
Organization == <<"O", "r", "g", "a", "n", "i", "z", "a", "t", "i", "o", "n">>
Location == <<"L", "o", "c", "a", "t", "i", "o", "n">>
Unknown == <<"U", "n", "k", "n", "o", "w", "n">>
UnknownStory == <<"U", "n", "k", "n", "o", "w", "n", " ", "S", "t", "o", "r", "y">>

\* "Dan  Ayu,ayu." is preprocessed to "Dan Ayu, ayu."
TextDanAyu == <<"D", "a", "n", " ", " ", "A", "y", "u", ",", "a", "y", "u", ".">>
\* "di Ayu(ayu)" is preprocessed to "di Ayu (ayu)"
TextDiAyu == <<"d", "i", " ", "A", "y", "u", "(", "a", "y", "u", ")">>
\* shorter than 5 characters
TextShort == <<" ", "A", "y", "u">>

\* rows of the CSV file; an empty Teks cell is read as NaN
RowA == [Teks |-> TextDanAyu, Judul |-> <<"A">>]
RowB == [Teks |-> TextDanAyu, Judul |-> <<"B", " ">>]
RowC == [Teks |-> TextDiAyu, Judul |-> <<" ", "A">>]
RowShort == [Teks |-> TextShort, Judul |-> <<"B">>]
RowNaN == [Teks |-> <<>>, Judul |-> <<"A">>]

\* the CSV files of the model
Corpora ==
    { <<>>,
      <<RowA>>,
      <<RowA, RowB>>,
      <<RowShort, RowB>>,
      <<RowC, RowNaN, RowA>> }

Groups == {"PER", "ORG", "LOC", "EVT"}
Scores == {59, 60, 90}

\* the 0-based positions at which a token of t starts
TokenStarts(t) ==
    {i \in 0..(Len(t) - 1) : t[i + 1] # " " /\ (i = 0 \/ t[i] = " ")}

\* the offsets of the spans of t that lie within one blank-separated chunk
SpanOffsets(t) ==
    {o \in TokenStarts(t) \X (1..Len(t)) :
        /\ o[1] < o[2]
        /\ \A i \in (o[1] + 1)..o[2] : t[i] # " "}

\* what the labeling model may return for t: well-formed entities,
\* entities without the key 'end', and entities whose 'end' is None (the
\* record then has the field end_is_None in place of end)
Entities(t) ==
    {[entity_group |-> g, score |-> sc, start |-> o[1], end |-> o[2]] :
        g \in Groups, sc \in Scores, o \in SpanOffsets(t)}
    \cup {[entity_group |-> "PER", score |-> sc, start |-> 0] : sc \in Scores}
    \cup {[entity_group |-> "PER", score |-> sc, start |-> 0, end_is_None |-> TRUE] :
            sc \in Scores}

-----------------------------------------------------------------------------
(* run_ner_process: the body of the loop over the entities of one row. *)

\* lines 122-125
LabelOf(group) ==
    IF group = "PER" THEN Person
    ELSE IF group = "ORG" THEN Organization
    ELSE IF group = "LOC" THEN Location
    ELSE Unknown

\* lines 111-114
CleanWord(t, entity) ==
    clean_entity_name(expand_to_full_word(t, entity.start, entity.end))

BelowThresholdNever(entity) == FALSE
\* line 107: the condition of the confidence filter
BelowThreshold(entity) == entity.score < CONFIDENCE_THRESHOLD

\* lines 107, 117, 120, 127: the entity reaches the merge
Accepted(t, entity) ==
    /\ ~BelowThreshold(entity)
    /\ LET clean_word == CleanWord(t, entity)
       IN ~(Len(clean_word) < 3) /\ clean_word \notin BLOCKLIST
    /\ LabelOf(entity.entity_group) # Unknown

BetterScoreLast(old, new) == new
\* lines 137-138
BetterScore(old, new) == IF new > old THEN new ELSE old

MergeLastLabel(ue, clean_word, label, score, title) ==
    [k \in DOMAIN ue \cup {clean_word} |->
        IF k # clean_word THEN ue[k]
        ELSE IF k \notin DOMAIN ue
        THEN [label |-> label, score |-> score, stories |-> {title}]
        ELSE [label |-> label, score |-> BetterScore(ue[k].score, score),
              stories |-> ue[k].stories \cup {title}]]
MergeFirstStory(ue, clean_word, label, score, title) ==
    [k \in DOMAIN ue \cup {clean_word} |->
        IF k # clean_word THEN ue[k]
        ELSE IF k \notin DOMAIN ue
        THEN [label |-> label, score |-> score, stories |-> {title}]
        ELSE [label |-> ue[k].label, score |-> BetterScore(ue[k].score, score),
              stories |-> ue[k].stories]]
\* lines 128-138
Merge(ue, clean_word, label, score, title) ==
    IF clean_word \notin DOMAIN ue
    THEN [k \in DOMAIN ue \cup {clean_word} |->
            IF k = clean_word
            THEN [label |-> label, score |-> score, stories |-> {title}]
            ELSE ue[k]]
    ELSE [ue EXCEPT ![clean_word] =
            [label |-> @.label,
             score |-> BetterScore(@.score, score),
             stories |-> @.stories \cup {title}]]

\* the history of the accepted sightings of each name: the label of the
\* first, whether a later one had another label, the scores and the rows
\* of all
Sight(sg, clean_word, label, score, row) ==
    IF clean_word \notin DOMAIN sg
    THEN [k \in DOMAIN sg \cup {clean_word} |->
            IF k = clean_word
            THEN [first |-> label, relabeled |-> FALSE, scores |-> {score},
                  rows |-> {row}]
            ELSE sg[k]]
    ELSE [sg EXCEPT ![clean_word] =
            [first |-> @.first,
             relabeled |-> @.relabeled \/ label # @.first,
             scores |-> @.scores \cup {score},
             rows |-> @.rows \cup {row}]]

RowFailedAborts ==
    /\ warned' = Append(warned, index)
    /\ table_before_row' = unique_entities
    /\ index' = index
    /\ pc' = "aborted"
\* line 141: the handler of the failure of a row
RowFailed ==
    /\ warned' = Append(warned, index)
    /\ table_before_row' = unique_entities
    /\ index' = index + 1
    /\ pc' = "rows"

-----------------------------------------------------------------------------
(* run_ner_process: the steps. *)

\* lines 58-71: the file is missing or unreadable, and the run ends
LoadFails ==
    /\ pc = "start"
    /\ pc' = "aborted"
    /\ UNCHANGED <<df, index, text, story_title, emitted, unique_entities,
                   final_output, warned, sightings, low_repaired, table_before_row,
                   evalVars,
                   expandVars, cleanVars>>

\* lines 64-67: read_csv, dropna on Teks, the default of a missing Judul
DropNa(rows) == SelectSeq(rows, LAMBDA r : r.Teks # <<>>)
WithDefaultJudul(rows) == [i \in DOMAIN rows |-> [rows[i] EXCEPT !.Judul = UnknownStory]]

\* lines 62-84
LoadCsv ==
    /\ pc = "start"
    /\ \E rows \in Corpora, has_judul \in BOOLEAN :
          df' = IF has_judul THEN DropNa(rows) ELSE WithDefaultJudul(DropNa(rows))
    /\ pc' = "rows"
    /\ index' = 1
    /\ unique_entities' = <<>>
    /\ table_before_row' = <<>>
    /\ UNCHANGED <<text, story_title, emitted, final_output, warned, sightings,
                   low_repaired, evalVars,
                   expandVars, cleanVars>>

\* lines 87-91 for the row at index
RowText == preprocess_text(df[index].Teks)
RowTitle == Strip(df[index].Judul)

\* line 93: a row with a short text is passed over
SkipShortRow ==
    /\ pc = "rows" /\ index <= Len(df)
    /\ Len(RowText) < 5
    /\ text' = RowText /\ story_title' = RowTitle
    /\ index' = index + 1
    /\ UNCHANGED <<pc, df, emitted, unique_entities, final_output, warned,
                   sightings, low_repaired, table_before_row,
                   evalVars,
                   expandVars, cleanVars>>

\* line 98: the labeling call returns the entities of the row
PipelineReturns ==
    /\ pc = "rows" /\ index <= Len(df)
    /\ ~(Len(RowText) < 5)
    /\ text' = RowText /\ story_title' = RowTitle
    /\ pc' = "spans"
    /\ UNCHANGED <<df, index, emitted, unique_entities, final_output, warned,
                   sightings, low_repaired, table_before_row,
                   evalVars,
                   expandVars, cleanVars>>

\* lines 98, 140-141: the labeling call raises
PipelineRaises ==
    /\ pc = "rows" /\ index <= Len(df)
    /\ ~(Len(RowText) < 5)
    /\ text' = RowText /\ story_title' = RowTitle
    /\ RowFailed
    /\ UNCHANGED <<df, emitted, unique_entities, final_output, sightings,
                   low_repaired, evalVars,
                   expandVars, cleanVars>>

\* lines 100-138: the next entity of the results is handled
HandleEntity ==
    /\ pc = "spans" /\ emitted < MaxEntities
    /\ emitted' = emitted + 1
    /\ \E entity \in Entities(text) :
          IF "end" \notin DOMAIN entity /\ "end_is_None" \notin DOMAIN entity
          THEN \* line 104 raises KeyError
               /\ RowFailed
               /\ UNCHANGED <<unique_entities, sightings, low_repaired>>
          ELSE IF BelowThreshold(entity)
          THEN \* line 108
               UNCHANGED <<pc, index, warned, unique_entities, sightings,
                           low_repaired, table_before_row>>
          ELSE \* line 111: expand_to_full_word is called
               /\ low_repaired' =
                      (low_repaired \/ entity.score < CONFIDENCE_THRESHOLD)
               /\ IF "end_is_None" \in DOMAIN entity
                  THEN \* line 45 raises TypeError
                       /\ RowFailed
                       /\ UNCHANGED <<unique_entities, sightings>>
                  ELSE /\ UNCHANGED <<pc, index, warned, table_before_row>>
                       /\ IF Accepted(text, entity)
                          THEN LET clean_word == CleanWord(text, entity)
                                   label == LabelOf(entity.entity_group)
                               IN /\ unique_entities' =
                                       Merge(unique_entities, clean_word, label,
                                             entity.score, story_title)
                                  /\ sightings' =
                                       Sight(sightings, clean_word, label,
                                             entity.score, index)
                          ELSE UNCHANGED <<unique_entities, sightings>>
    /\ UNCHANGED <<df, text, story_title, final_output, evalVars,
                   expandVars, cleanVars>>

\* line 100: the results are exhausted
EndOfResults ==
    /\ pc = "spans"
    /\ pc' = "rows"
    /\ index' = index + 1
    /\ table_before_row' = unique_entities
    /\ UNCHANGED <<df, text, story_title, emitted, unique_entities, final_output,
                   warned, sightings, low_repaired, evalVars,
                   expandVars, cleanVars>>

\* lines 144-153
FinalOutput(ue) ==
    LET names == SortedStrs(DOMAIN ue)
    IN [i \in 1..Len(names) |->
          [name |-> names[i],
           label |-> ue[names[i]].label,
           confidence |-> ue[names[i]].score,
           stories |-> SortedStrs(ue[names[i]].stories)]]

\* lines 143-159: after the last row
Serialize ==
    /\ pc = "rows" /\ index > Len(df)
    /\ final_output' = FinalOutput(unique_entities)
    /\ pc' = "done"
    /\ UNCHANGED <<df, index, text, story_title, emitted, unique_entities,
                   warned, sightings, low_repaired, table_before_row,
                   evalVars,
                   expandVars, cleanVars>>

NextNer ==
    \/ LoadFails \/ LoadCsv
    \/ SkipShortRow \/ PipelineReturns \/ PipelineRaises
    \/ HandleEntity \/ EndOfResults
    \/ Serialize

InitNer ==
    /\ EvalIdle /\ ExpandIdle /\ CleanIdle
    /\ pc = "start" /\ df = <<>> /\ index = 0 /\ text = <<>> /\ story_title = <<>>
    /\ emitted = 0 /\ unique_entities = <<>> /\ final_output = <<>>
    /\ warned = <<>> /\ sightings = <<>> /\ low_repaired = FALSE
    /\ table_before_row = <<>>

Spec == InitNer /\ [][NextNer]_vars

-----------------------------------------------------------------------------
(* evaluate_ner.py: dicts and float arithmetic. *)

\* a dict is the sequence of its items [key, value] in insertion order
HasKey(d, k) == \E i \in DOMAIN d : d[i].key = k
Get(d, k) == d[CHOOSE i \in DOMAIN d : d[i].key = k].value
\* d[k] = v
Put(d, k, v) ==
    IF HasKey(d, k)
    THEN [i \in DOMAIN d |-> IF d[i].key = k THEN [key |-> k, value |-> v] ELSE d[i]]
    ELSE Append(d, [key |-> k, value |-> v])

\* {item['name'].lower(): item for item in items}, added to d
RECURSIVE DictByLowerName(_, _)
DictByLowerName(items, d) ==
    IF items = <<>> THEN d
    ELSE DictByLowerName(Tail(items), Put(d, Lower(items[1].name), items[1]))

RECURSIVE GCD(_, _)
GCD(a, b) == IF b = 0 THEN a ELSE GCD(b, a % b)

\* the float n / d for d > 0, in lowest terms
Frac(n, d) == [n |-> n \div GCD(n, d), d |-> d \div GCD(n, d)]
Num(n) == [n |-> n, d |-> 1]
\* what a division by zero gives: ZeroDivisionError is raised
ZeroDivisionError == [n |-> 0, d |-> 0]
Raised(x) == x.d = 0

\* a / b
TrueDiv(a, b) ==
    IF Raised(a) \/ Raised(b) \/ b.n = 0 THEN ZeroDivisionError
    ELSE Frac(a.n * b.d, a.d * b.n)
\* a * b
Times(a, b) ==
    IF Raised(a) \/ Raised(b) THEN ZeroDivisionError ELSE Frac(a.n * b.n, a.d * b.d)
\* a + b
Plus(a, b) ==
    IF Raised(a) \/ Raised(b) THEN ZeroDivisionError
    ELSE Frac(a.n * b.d + b.n * a.d, a.d * b.d)
\* a <= b, a > 0
LessEq(a, b) == a.n * b.d <= b.n * a.d
Positive(a) == a.n > 0

-----------------------------------------------------------------------------
(* calculate_metrics: the metrics. *)

\* line 122
Recall(tp_, gold_size) ==
    IF gold_size > 0 THEN Times(TrueDiv(Num(tp_), Num(gold_size)), Num(100))
    ELSE Num(0)

StrictPrecisionUnguarded(strict_tp_, total) ==
    Times(TrueDiv(Num(strict_tp_), Num(total)), Num(100))
\* line 129
StrictPrecision(strict_tp_, total) ==
    IF total > 0 THEN Times(TrueDiv(Num(strict_tp_), Num(total)), Num(100))
    ELSE Num(0)

\* lines 133-136
F1(strict_precision, recall) ==
    IF Positive(Plus(strict_precision, recall))
    THEN TrueDiv(Times(Num(2), Times(strict_precision, recall)),
                 Plus(strict_precision, recall))
    ELSE Num(0)

\* line 166
LabelMismatchList(gold, predictions) ==
    LET wrong == SelectSeq(gold, LAMBDA it :
                    /\ HasKey(predictions, it.key)
                    /\ Lower(Get(predictions, it.key).label) # Lower(it.value.label))
    IN [i \in DOMAIN wrong |-> wrong[i].key]

-----------------------------------------------------------------------------
(* calculate_metrics: the inputs. *)

NameAb == <<"A", "b">>
NameLowerAb == <<"a", "b">>
NameC == <<"c">>
EvalNames == {NameAb, NameLowerAb, NameC}

GoldItems == [name : EvalNames, label : {Person, Location}]
\* the records run_ner_process writes carry the labels of lines 123-125
PredictionItems == [name : EvalNames, label : {Person, Location}]
\* a results file whose label is in another letter case
LowerLabelPredictions == << [name |-> NameC, label |-> Lower(Person)] >>

\* the scenario of two gold entities, one found and one mislabeled
ScenarioGold ==
    << [name |-> <<"P", "r", "a", "b", "u", " ", "B", "a", "s", "u", "k", "e", "s", "t", "i">>, label |-> Person],
       [name |-> <<"M", "e", "d", "a", "n", "g", " ", "K", "a", "m", "u", "l", "a", "n">>, label |-> Location] >>
ScenarioPredictions ==
    << [name |-> <<"p", "r", "a", "b", "u", " ", "b", "a", "s", "u", "k", "e", "s", "t", "i">>, label |-> Person],
       [name |-> <<"m", "e", "d", "a", "n", "g", " ", "k", "a", "m", "u", "l", "a", "n">>, label |-> Person] >>

GoldLists == UNION {[1..n -> GoldItems] : n \in 0..MaxGold} \cup {ScenarioGold}
PredictionLists ==
    UNION {[1..n -> PredictionItems] : n \in 0..MaxPreds}
        \cup {ScenarioPredictions, LowerLabelPredictions}

-----------------------------------------------------------------------------
(* calculate_metrics: the steps. *)

\* lines 70-72: the results file is missing
ResultsMissing ==
    /\ epc = "start"
    /\ epc' = "absent"
    /\ UNCHANGED <<GOLD_STANDARD, json_results, model_predictions, gold_truth, pos,
                   tp, fp, fn, strict_tp, strict_fp_label_error, mismatches,
                   report, nerVars, expandVars, cleanVars>>

\* lines 75-90
LoadResults ==
    /\ epc = "start"
    /\ json_results' \in PredictionLists
    /\ model_predictions' = DictByLowerName(json_results', <<>>)
    /\ gold_truth' = DictByLowerName(GOLD_STANDARD, <<>>)
    /\ tp' = 0 /\ fp' = 0 /\ fn' = 0
    /\ strict_tp' = 0 /\ strict_fp_label_error' = 0
    /\ pos' = 1
    /\ epc' = "analyze"
    /\ UNCHANGED <<GOLD_STANDARD, mismatches, report, nerVars, expandVars, cleanVars>>

\* lines 94-111: one item of gold_truth
AnalyzeGoldItem ==
    /\ epc = "analyze" /\ pos <= Len(gold_truth)
    /\ LET name_lower == gold_truth[pos].key
           gold_item == gold_truth[pos].value
       IN IF HasKey(model_predictions, name_lower)
          THEN LET prediction == Get(model_predictions, name_lower)
               IN IF Lower(prediction.label) = Lower(gold_item.label)
                  THEN /\ tp' = tp + 1
                       /\ strict_tp' = strict_tp + 1
                       /\ UNCHANGED <<fn, strict_fp_label_error, mismatches>>
                  ELSE /\ mismatches' =
                            Append(mismatches,
                                   [name |-> gold_item.name, gold |-> gold_item.label,
                                    model |-> prediction.label])
                       /\ strict_fp_label_error' = strict_fp_label_error + 1
                       /\ fn' = fn + 1
                       /\ UNCHANGED <<tp, strict_tp>>
          ELSE /\ fn' = fn + 1
               /\ UNCHANGED <<tp, strict_tp, strict_fp_label_error, mismatches>>
    /\ pos' = pos + 1
    /\ UNCHANGED <<epc, GOLD_STANDARD, json_results, model_predictions, gold_truth,
                   fp, report, nerVars, expandVars, cleanVars>>

\* lines 122-169: the metrics and the report
Metrics ==
    /\ epc = "analyze" /\ pos > Len(gold_truth)
    /\ LET recall == Recall(tp, Len(GOLD_STANDARD))
           total_found_in_gold_set == strict_tp + strict_fp_label_error
           strict_precision == StrictPrecision(strict_tp, total_found_in_gold_set)
           f1 == F1(strict_precision, recall)
           label_accuracy == strict_precision
       IN IF Raised(recall) \/ Raised(strict_precision) \/ Raised(f1)
          THEN /\ epc' = "raised"
               /\ UNCHANGED report
          ELSE /\ epc' = "report"
               /\ report' =
                    [gold_standard_size |-> Len(GOLD_STANDARD),
                     matches_found |-> total_found_in_gold_set,
                     perfect_matches |-> strict_tp,
                     label_errors |-> strict_fp_label_error,
                     completely_missed |-> fn,
                     recall |-> recall,
                     strict_precision |-> strict_precision,
                     f1 |-> f1,
                     label_accuracy |-> label_accuracy,
                     mismatches |-> mismatches,
                     label_mismatch_list |->
                        LabelMismatchList(gold_truth, model_predictions)]
    /\ UNCHANGED <<GOLD_STANDARD, json_results, model_predictions, gold_truth, pos,
                   tp, fp, fn, strict_tp, strict_fp_label_error, mismatches,
                   nerVars, expandVars, cleanVars>>

NextEval == ResultsMissing \/ LoadResults \/ AnalyzeGoldItem \/ Metrics

InitEval ==
    /\ NerIdle /\ ExpandIdle /\ CleanIdle
    /\ epc = "start"
    /\ GOLD_STANDARD \in GoldLists
    /\ json_results = <<>> /\ model_predictions = <<>> /\ gold_truth = <<>>
    /\ pos = 0 /\ tp = 0 /\ fp = 0 /\ fn = 0
    /\ strict_tp = 0 /\ strict_fp_label_error = 0
    /\ mismatches = <<>> /\ report = <<>>

SpecEval == InitEval /\ [][NextEval]_vars

-----------------------------------------------------------------------------
(* calculate_metrics as a function of the gold list and the results list. *)

\* lines 94-111: the loop over gold_truth from item i on, c the counters
RECURSIVE AnalyzeFrom(_, _, _, _)
AnalyzeFrom(gold, predictions, i, c) ==
    IF i > Len(gold) THEN c
    ELSE LET name_lower == gold[i].key
             gold_item == gold[i].value
         IN AnalyzeFrom(gold, predictions, i + 1,
              IF HasKey(predictions, name_lower)
              THEN LET prediction == Get(predictions, name_lower)
                   IN IF Lower(prediction.label) = Lower(gold_item.label)
                      THEN [c EXCEPT !.tp = @ + 1, !.strict_tp = @ + 1]
                      ELSE [c EXCEPT
                              !.mismatches =
                                  Append(@, [name |-> gold_item.name,
                                             gold |-> gold_item.label,
                                             model |-> prediction.label]),
                              !.strict_fp_label_error = @ + 1,
                              !.fn = @ + 1]
              ELSE [c EXCEPT !.fn = @ + 1])

\* lines 78-169: the report, or the record [raised |-> TRUE] when a
\* division raises
calculate_metrics(gold_list, results) ==
    LET predictions == DictByLowerName(results, <<>>)
        gold == DictByLowerName(gold_list, <<>>)
        c == AnalyzeFrom(gold, predictions, 1,
                [tp |-> 0, fn |-> 0, strict_tp |-> 0,
                 strict_fp_label_error |-> 0, mismatches |-> <<>>])
        recall == Recall(c.tp, Len(gold_list))
        total_found_in_gold_set == c.strict_tp + c.strict_fp_label_error
        strict_precision == StrictPrecision(c.strict_tp, total_found_in_gold_set)
        f1 == F1(strict_precision, recall)
    IN IF Raised(recall) \/ Raised(strict_precision) \/ Raised(f1)
       THEN [raised |-> TRUE]
       ELSE [gold_standard_size |-> Len(gold_list),
             matches_found |-> total_found_in_gold_set,
             perfect_matches |-> c.strict_tp,
             label_errors |-> c.strict_fp_label_error,
             completely_missed |-> c.fn,
             recall |-> recall,
             strict_precision |-> strict_precision,
             f1 |-> f1,
             label_accuracy |-> strict_precision,
             mismatches |-> c.mismatches,
             label_mismatch_list |-> LabelMismatchList(gold, predictions)]

-----------------------------------------------------------------------------
(* run_ner_process: the aggregation. *)

\* lowercase(trim(name))
Normalize(name) == Lower(Strip(name))

SetMax(S) == CHOOSE m \in S : \A x \in S : x <= m

\* C1: no two entries of the entity table, and no two records of the
\* serialized list, have the same normalized key lowercase(trim(name)).
C1_NormalizedKeyUnique ==
    /\ \A a, b \in DOMAIN unique_entities :
          Normalize(a) = Normalize(b) => a = b
    /\ \A i, j \in DOMAIN final_output :
          Normalize(final_output[i].name) = Normalize(final_output[j].name) => i = j

\* C2: the score stored for a name is the maximum of the scores of the
\* accepted sightings of that name, and no step lowers a stored score.
C2_ConfidenceIsMax ==
    /\ [](\A k \in DOMAIN unique_entities :
            /\ k \in DOMAIN sightings
            /\ unique_entities[k].score = SetMax(sightings[k].scores))
    /\ [][\A k \in DOMAIN unique_entities :
            /\ k \in DOMAIN unique_entities'
            /\ unique_entities'[k].score >= unique_entities[k].score]_vars

\* a name sighted with two scores, the run over
C2_Witness ==
    /\ pc = "done"
    /\ \E k \in DOMAIN unique_entities : Cardinality(sightings[k].scores) >= 2

\* C3: the label of an entry is the label of the first accepted sighting of
\* its name, no step changes the label of an entry, and the serialized label
\* is that label.
C3_FirstLabelKept ==
    /\ [](\A k \in DOMAIN unique_entities :
            unique_entities[k].label = sightings[k].first)
    /\ [][\A k \in DOMAIN unique_entities :
            /\ k \in DOMAIN unique_entities'
            /\ unique_entities'[k].label = unique_entities[k].label]_vars
    /\ [](pc = "done" =>
            /\ Len(final_output) = Cardinality(DOMAIN sightings)
            /\ \A i \in DOMAIN final_output :
                  final_output[i].label = sightings[final_output[i].name].first)

\* a name sighted with two labels, the run over
C3_Witness ==
    /\ pc = "done"
    /\ \E k \in DOMAIN unique_entities : sightings[k].relabeled

\* the titles of the rows of a set of row numbers
TitlesOf(rows) == {Strip(df[i].Judul) : i \in rows}

\* C4: the stories of a name are exactly the titles of the rows in which an
\* accepted span of that name was sighted, in the table and in the
\* serialized list, and no step removes an entry.
C4_StoriesAreSightedRows ==
    /\ [](/\ DOMAIN unique_entities = DOMAIN sightings
          /\ \A k \in DOMAIN unique_entities :
                unique_entities[k].stories = TitlesOf(sightings[k].rows))
    /\ [](pc = "done" =>
            /\ {final_output[i].name : i \in DOMAIN final_output} = DOMAIN sightings
            /\ \A i \in DOMAIN final_output :
                  final_output[i].stories
                     = SortedStrs(TitlesOf(sightings[final_output[i].name].rows)))
    /\ [][DOMAIN unique_entities \subseteq DOMAIN unique_entities']_vars

\* a name sighted in two rows of different titles, the run over
C4_Witness ==
    /\ pc = "done"
    /\ \E k \in DOMAIN unique_entities :
          /\ Cardinality(sightings[k].rows) >= 2
          /\ Cardinality(unique_entities[k].stories) >= 2

\* what is left of the loop over the rows: the rows from index on, and
\* within a row the entities the labeling model has yet to return
LoopMeasure ==
    IF pc = "rows" THEN (Len(df) + 1 - index) * (MaxEntities + 2) + MaxEntities + 1
    ELSE IF pc = "spans" THEN (Len(df) + 1 - index) * (MaxEntities + 2) + MaxEntities - emitted
    ELSE 0

\* C5: a failure of a row leaves the loop running at the next row; the rows
\* are taken one by one in order, and the only way out of the loop is the
\* serialization after the last row; the run reaches it, as every step of
\* the loop brings the end nearer.
C5_FailureNeverAborts ==
    /\ [][warned' # warned => pc' = "rows" /\ index' = index + 1]_vars
    /\ [][(pc = "rows" \/ pc = "spans") =>
            ( (pc' \in {"rows", "spans"} /\ index' \in {index, index + 1})
              \/ (pc' = "done" /\ index' = index /\ index = Len(df) + 1) )]_vars
    /\ [](pc = "done" => final_output = FinalOutput(unique_entities))
    /\ [](LoopMeasure >= 0)
    /\ [][(pc = "rows" \/ pc = "spans") => LoopMeasure' < LoopMeasure]_vars

\* a row failed, a later row gave an entity, and the run is over
C5_Witness ==
    /\ pc = "done"
    /\ warned # <<>>
    /\ \E k \in DOMAIN sightings : \E i \in sightings[k].rows : i > warned[1]

-----------------------------------------------------------------------------
(* calculate_metrics: the report. *)

\* the gold entries found in the prediction table, and those found there
\* with the same label but for case
GoldFound == {i \in DOMAIN GOLD_STANDARD :
                HasKey(model_predictions, Lower(GOLD_STANDARD[i].name))}
GoldMatched == {i \in GoldFound :
                  Lower(Get(model_predictions, Lower(GOLD_STANDARD[i].name)).label)
                     = Lower(GOLD_STANDARD[i].label)}
\* no two gold entries of the same lowercased name
GoldDistinct == \A i, j \in DOMAIN GOLD_STANDARD :
                   Lower(GOLD_STANDARD[i].name) = Lower(GOLD_STANDARD[j].name) => i = j

\* C6: of gold entries of distinct names, the report counts the matched as
\* true positives, the found with another label as label errors, and only
\* the not found as missed; in the scenario of two gold entities the report
\* is 1 true positive, 1 label error, 0 missed, recall 50, strict precision
\* 50, f1 50.
C6_MissedCountsNotFound ==
    (epc = "report" /\ GoldDistinct) =>
        /\ report.perfect_matches = Cardinality(GoldMatched)
        /\ report.label_errors = Cardinality(GoldFound \ GoldMatched)
        /\ report.completely_missed = Cardinality(DOMAIN GOLD_STANDARD \ GoldFound)
        /\ (GOLD_STANDARD = ScenarioGold /\ json_results = ScenarioPredictions) =>
              /\ report.perfect_matches = 1
              /\ report.label_errors = 1
              /\ report.completely_missed = 0
              /\ report.recall = Num(50)
              /\ report.strict_precision = Num(50)
              /\ report.f1 = Num(50)

\* C7: of a gold list that is not empty, the recall lies between 0 and 100,
\* and is 100 exactly when every entry of the gold list is found in the
\* prediction table with a matching label.
C7_RecallFullIffAllMatched ==
    (epc = "report" /\ GOLD_STANDARD # <<>>) =>
        /\ LessEq(Num(0), report.recall)
        /\ LessEq(report.recall, Num(100))
        /\ (report.recall = Num(100)) <=> (GoldMatched = DOMAIN GOLD_STANDARD)

\* C8: no division by zero is raised; the recall is 0 of an empty gold list,
\* the strict precision is 0 when no gold entity was found, the f1 is 0 when
\* both are 0; otherwise the strict precision lies between 0 and 100; the
\* label accuracy is the strict precision.
C8_NoDivisionByZero ==
    /\ epc # "raised"
    /\ epc = "report" =>
        /\ ~Raised(report.recall) /\ ~Raised(report.strict_precision)
        /\ ~Raised(report.f1)
        /\ GOLD_STANDARD = <<>> => report.recall = Num(0)
        /\ report.matches_found = 0 => report.strict_precision = Num(0)
        /\ (report.recall = Num(0) /\ report.strict_precision = Num(0))
              => report.f1 = Num(0)
        /\ report.matches_found > 0 =>
              /\ LessEq(Num(0), report.strict_precision)
              /\ LessEq(report.strict_precision, Num(100))
              /\ report.strict_precision
                    = Frac(100 * report.perfect_matches, report.matches_found)
        /\ report.label_accuracy = report.strict_precision

\* a report of an empty gold list, and so of no match, against predictions
C8_Witness ==
    /\ epc = "report"
    /\ GOLD_STANDARD = <<>>
    /\ json_results # <<>>
    /\ report.matches_found = 0

-----------------------------------------------------------------------------
(* expand_to_full_word: the result. *)

\* the result is the piece of the text that starts at xstart
ResultStartsAtStart ==
    /\ xstart + Len(xresult) <= Len(xtext)
    /\ \A i \in 1..Len(xresult) : xresult[i] = xtext[xstart + i]

\* C9: the result starts at text[start], is at least end - start long, so
\* that text[start:end] is a prefix of it, and is text[start:len(text)] when
\* end is len(text).
C9_RepairNeverShrinks ==
    xpc = "ret" =>
        /\ ResultStartsAtStart
        /\ Len(xresult) >= xend - xstart
        /\ xend = Len(xtext) => Len(xresult) = Len(xtext) - xstart

\* a span cut in a word and extended by the loop
C9_Witness ==
    /\ xpc = "ret"
    /\ 0 < xstart /\ xstart < xend /\ xend < Len(xtext)
    /\ Len(xresult) > xend - xstart

\* 0-based position at which the result ends
ResultEnd == xstart + Len(xresult)

\* C10: for end < len(text) the result ends at the first position from end
\* on that is the end of the text or holds no alphanumeric character;
\* expand("Arya Basusara adalah", 0, 8) is "Arya Basusara"; the loop ends.
C10_StopsAtWordEnd ==
    /\ []((xpc = "ret" /\ xend < Len(xtext)) =>
            /\ ResultStartsAtStart
            /\ ResultEnd >= xend
            /\ ResultEnd = Len(xtext) \/ ~IsAlnum(xtext[ResultEnd + 1])
            /\ \A e \in xend..(ResultEnd - 1) : IsAlnum(xtext[e + 1])
            /\ (xtext = ExampleText /\ xstart = 0 /\ xend = 8) =>
                  xresult = <<"A", "r", "y", "a", " ", "B", "a", "s", "u", "s", "a", "r", "a">>)
    /\ <>(xpc = "ret")

\* the span "Arya Bas" of the example, repaired
C10_Witness ==
    /\ xpc = "ret"
    /\ xtext = ExampleText /\ xstart = 0 /\ xend = 8
    /\ Len(xresult) > xend - xstart

-----------------------------------------------------------------------------
(* Claims about clean_entity_name. *)

HasMarker(s) == \E i \in 1..(Len(s) - 1) : s[i] = "#" /\ s[i + 1] = "#"
HasBlankRun(s) == \E i \in 1..(Len(s) - 1) : s[i] = " " /\ s[i + 1] = " "
AllAlpha(s) == \A i \in DOMAIN s : IsAlpha(s[i])

\* the result holds no marker, no punctuation at its ends, no run of spaces
CleanedShape ==
    cpc = "ret" =>
        /\ ~HasMarker(word)
        /\ word # <<>> => (word[1] \notin Punctuation /\ word[Len(word)] \notin Punctuation)
        /\ ~HasBlankRun(word)

\* raw_word is a piece, a space, the marker and a second piece
RejoinCase(i) ==
    /\ 1 < i /\ i + 2 < Len(raw_word)
    /\ raw_word[i] = " " /\ raw_word[i + 1] = "#" /\ raw_word[i + 2] = "#"
    /\ AllAlpha(SubSeq(raw_word, 1, i - 1))
    /\ AllAlpha(SubSeq(raw_word, i + 3, Len(raw_word)))

\* C11: cleaning a word whose second piece follows a space and carries the
\* marker "##" joins the two pieces, the marker and the space removed
\* ("Bam ##bang" gives "Bambang"); the result holds no "##", neither starts
\* nor ends with a character of the punctuation set, and holds no run of
\* two or more spaces.
C11_RejoinsPieces ==
    /\ CleanedShape
    /\ cpc = "ret" =>
        /\ \A i \in DOMAIN raw_word :
              RejoinCase(i) =>
                  word = SubSeq(raw_word, 1, i - 1) \o SubSeq(raw_word, i + 3, Len(raw_word))
        /\ raw_word = ExampleWord => word = <<"B", "a", "m", "b", "a", "n", "g">>

-----------------------------------------------------------------------------
(* Claims about the admission filter of run_ner_process. *)

\* C12: every entry of the entity table has a name of at least 3
\* characters that is no blocklist word, a label among Person, Location and
\* Organization, and a confidence of at least the threshold; a span below
\* the threshold is rejected before the repair and the cleaning, and neither
\* creates nor updates an entry.
C12_AdmissionFilter ==
    /\ \A k \in DOMAIN unique_entities :
          /\ Len(k) >= 3
          /\ k \notin BLOCKLIST
          /\ unique_entities[k].label \in {Person, Location, Organization}
          /\ unique_entities[k].score >= CONFIDENCE_THRESHOLD
    /\ \A k \in DOMAIN sightings :
          \A sc \in sightings[k].scores : sc >= CONFIDENCE_THRESHOLD
    /\ ~low_repaired

\* three spans were handled without a failure, and the only one admitted
\* had exactly the threshold as confidence
C12_Witness ==
    /\ pc = "spans" /\ emitted = 3 /\ warned = <<>>
    /\ DOMAIN sightings = {<<"A", "y", "u">>}
    /\ sightings[<<"A", "y", "u">>].scores = {CONFIDENCE_THRESHOLD}
    /\ unique_entities[<<"A", "y", "u">>].stories = {<<"A">>}
    /\ index = 1

-----------------------------------------------------------------------------
(* Claims about a row that ends in a caught failure. *)

\* C13: when the processing of a row fails, the entity table after the row
\* is the table before the row: no span of the row has created an entry or
\* updated a confidence or a set of stories, also when the failure comes
\* after some spans of the row were handled.
C13_FailedRowSkippedWhole ==
    [][warned' # warned => unique_entities' = table_before_row]_vars

-----------------------------------------------------------------------------
(* Claims about the order of the records of the results file. *)

\* the results list in the order perm
Permuted(results, perm) == [i \in DOMAIN results |-> results[perm[i]]]
Orders(n) == {perm \in [1..n -> 1..n] : \A i, j \in 1..n : perm[i] = perm[j] => i = j}

\* a list run_ner_process can write: one record per table key, sorted by
\* name, with the labels of the table
WrittenByNer(results) ==
    /\ \A i, j \in DOMAIN results : i < j => StrLess(results[i].name, results[j].name)
    /\ \A i \in DOMAIN results : results[i].label \in {Person, Organization, Location}

\* what the run has given
Outcome == IF epc = "report" THEN report ELSE [raised |-> TRUE]

\* the run gives what calculate_metrics gives for its inputs
RunIsFunctionOfInputs ==
    (epc = "report" \/ epc = "raised") =>
        Outcome = calculate_metrics(GOLD_STANDARD, json_results)

\* C14: the result of calculate_metrics is the same for every order of the
\* records of a list written by run_ner_process, also when two records
\* differ only in the letter case of the name and have different labels;
\* a second run on the same inputs gives the same result.
C14_OrderIndependent ==
    /\ RunIsFunctionOfInputs
    /\ ((epc = "report" \/ epc = "raised") /\ WrittenByNer(json_results)) =>
          \A perm \in Orders(Len(json_results)) :
              calculate_metrics(GOLD_STANDARD, Permuted(json_results, perm)) = Outcome

=============================================================================
